---- MODULE Spec2Model ----
(***************************************************************************)
(* Model of giantswarm/search-mcp, src/server.py: the five MCP tools       *)
(* (search, search_runbook, search_ops_recipe, read_intranet_url,          *)
(* read_handbook_url), the helper _read_url_content and AuthManager.       *)
(*                                                                         *)
(* One tool invocation runs at a time (the tools share no mutable state).  *)
(* An invocation is split at its only suspension point, the outbound HTTP  *)
(* request: the Call action runs the code up to session.get/post (or to an *)
(* early return) and the response action runs the code from the response   *)
(* to the return statement.                                                *)
(*                                                                         *)
(* Texts that the code only passes through (search term, URL, exception    *)
(* text) are opaque strings.  A returned text is a record: msg is the      *)
(* literal part of the f-string, the other fields are what the code        *)
(* interpolates into it.  The markdown text the whitespace clean-up works  *)
(* on is a sequence of characters.                                         *)
(***************************************************************************)
EXTENDS Integers, Sequences, FiniteSets, TLC

VARIABLES
    cookie,            \* os.environ['INTRANET_SESSION_COOKIE'], "" when unset or empty
    pc,                \* "idle", "awaiting" (request in flight), "done" (returned)
    args,              \* the arguments of the running invocation
    is_authenticated,  \* search's local is_authenticated (line 187)
    requests,          \* the outbound requests issued by the running invocation
    response,          \* the upstream outcome the invocation received
    json_attempted,    \* TRUE once json.loads(response_text) has been called
    result             \* what the invocation returned (or the exception it raised)

vars == <<cookie, pc, args, is_authenticated, requests, response, json_attempted, result>>

(***************************************************************************)
(* Bounds of the model.                                                    *)
(***************************************************************************)
MaxLen == 5        \* longest markdown text handed to the whitespace clean-up
MaxHits == 2       \* most hit records in one search response
MaxCrumbs == 2     \* longest breadcrumb_filter
MaxStart == 2      \* largest start_index

DefaultSize == 30  \* size: int = 30

(***************************************************************************)
(* Character texts: the whitespace clean-up of _read_url_content.          *)
(***************************************************************************)
NL == "\n"
Chars == {"a", "b", " ", NL}
Whitespace == {" ", NL}

Texts == UNION {[1..k -> Chars] : k \in 0..MaxLen}

\* str.rstrip(): drop the trailing whitespace characters
RECURSIVE RStrip(_)
RStrip(s) ==
    IF s = <<>> THEN <<>>
    ELSE IF s[Len(s)] \in Whitespace THEN RStrip(SubSeq(s, 1, Len(s) - 1))
    ELSE s

\* the leading half of str.strip()
RECURSIVE LStrip(_)
LStrip(s) ==
    IF s = <<>> THEN <<>>
    ELSE IF s[1] \in Whitespace THEN LStrip(Tail(s))
    ELSE s

\* str.strip()
Strip(s) == LStrip(RStrip(s))

\* index of the first "\n" of s, 0 when there is none
RECURSIVE FindNL(_, _)
FindNL(s, i) ==
    IF i > Len(s) THEN 0
    ELSE IF s[i] = NL THEN i
    ELSE FindNL(s, i + 1)

\* markdown_content.split('\n'): always at least one line
RECURSIVE Split(_)
Split(s) ==
    LET i == FindNL(s, 1)
    IN  IF i = 0 THEN <<s>>
        ELSE <<SubSeq(s, 1, i - 1)>> \o Split(SubSeq(s, i + 1, Len(s)))

\* '\n'.join(lines)
RECURSIVE Join(_)
Join(lines) ==
    IF lines = <<>> THEN <<>>
    ELSE IF Len(lines) = 1 THEN lines[1]
    ELSE lines[1] \o <<NL>> \o Join(Tail(lines))

\* faulty variant: prev_empty is never updated, so no blank line is ever skipped
RECURSIVE CleanLinesKeepsRuns(_, _)
CleanLinesKeepsRuns(lines, prev_empty) ==
    IF lines = <<>> THEN <<>>
    ELSE <<RStrip(lines[1])>> \o CleanLinesKeepsRuns(Tail(lines), prev_empty)

\* the loop over lines: rstrip each line, skip an empty line that follows an
\* empty line
RECURSIVE CleanLines(_, _)
CleanLines(lines, prev_empty) ==
    IF lines = <<>> THEN <<>>
    ELSE LET line == RStrip(lines[1])
             is_empty == Len(line) = 0
         IN  IF is_empty /\ prev_empty
             THEN CleanLines(Tail(lines), prev_empty)
             ELSE <<line>> \o CleanLines(Tail(lines), is_empty)

\* "Clean up excessive whitespace": split, clean, join, strip
CleanWhitespace(markdown_content) ==
    Strip(Join(CleanLines(Split(markdown_content), FALSE)))

(***************************************************************************)
(* AuthManager.                                                            *)
(***************************************************************************)
Cookies == {"", "c1"}

\* AuthManager.is_authenticated: bool(os.getenv('INTRANET_SESSION_COOKIE'))
IsAuthenticated(env) == env # ""

\* AuthManager.get_auth_headers: {"cookies": {"_oauth2_proxy": cookie}} or {}
GetAuthHeaders(env) ==
    IF env # "" THEN [cookies |-> env] ELSE <<>>

(***************************************************************************)
(* The returned values.                                                    *)
(***************************************************************************)
MsgIntranetFilter == "Cannot search Intranet resources without authentication."
MsgInvalidJson == "Invalid JSON response from server. Response status: {status} Response preview: {response_text[:200]}"
MsgAuthExpired == "Authentication expired. Your INTRANET_SESSION_COOKIE has expired."
MsgAuthRequired == "Authentication required for this resource. Please set the INTRANET_SESSION_COOKIE environment variable."
MsgGotHtml == "Got HTML response instead of expected JSON."
MsgHttpTryAgain == "HTTP {status}: {reason}. Please try again."
MsgSearchResults == "# Search results for {term}"
MsgUnexpectedFormat == "Unexpected response format. Missing key: {e}"
MsgErrorAccessing == "Error accessing {url}: {error}"
MsgRunbookAuth == "This tool requires authentication. Runbooks are internal intranet resources."
MsgOpsRecipeAuth == "This tool requires authentication. Ops Recipes are internal intranet resources."
MsgIntranetAuth == "This tool requires authentication. The intranet requires authentication via the INTRANET_SESSION_COOKIE environment variable."
MsgIntranetUrl == "URL must be from the Giant Swarm intranet (https://intranet.giantswarm.io/)."
MsgHandbookUrl == "URL must be from the Giant Swarm handbook (https://handbook.giantswarm.io/)."
MsgAuthFailedOrExpired == "Authentication failed or expired. Please update your INTRANET_SESSION_COOKIE environment variable with a fresh cookie value."
MsgPageNotFound == "Page not found: {url}"
MsgHttpCheckUrl == "HTTP {status}: {reason}. Please check the URL or try again."
MsgContentFrom == "# Content from {url}"

\* a text: msg is the literal part, the rest is what is interpolated.
\* raw tells how much of response_text the text embeds.
EmptyText ==
    [msg |-> "", url |-> [origin |-> "", path |-> ""], term |-> "", status |-> 0, raw |-> "none",
     error |-> "", content |-> <<>>, note |-> FALSE, shown |-> 0, total |-> 0,
     starting |-> <<>>, entries |-> <<>>]

Text(msg) == [EmptyText EXCEPT !.msg = msg]

\* {"content": [{"type": "text", "text": text}]}
ToolResponse(text) ==
    [raised |-> "", content |-> <<[type |-> "text", text |-> text]>>]

\* the invocation ends with exception exc propagating to the caller
Raises(exc) == [raised |-> exc, content |-> <<>>]

NoResult == [raised |-> "", content |-> <<>>]

(***************************************************************************)
(* search: building the request (lines 186-281).                           *)
(***************************************************************************)
\* a URL is its text up to and including the "/" that ends the host, and the rest
IntranetOrigin == "https://intranet.giantswarm.io/"
HandbookOrigin == "https://handbook.giantswarm.io/"
NoUrl == [origin |-> "", path |-> ""]

\* str.startswith for a prefix that is an origin
StartsWith(url, prefix) == url.origin = prefix

IntranetSearchUrl == [origin |-> IntranetOrigin, path |-> "searchapi/"]
PublicSearchUrl == [origin |-> "https://docs.giantswarm.io/", path |-> "searchapi/"]

\* the function_score query around simple_query_string(term)
base_query(term) ==
    [kind |-> "function_score", field |-> "simple_query_string", n |-> 0,
     value |-> term]

\* {"term": {"type": type_filter}}
TypeClause(type_filter) ==
    [kind |-> "term", field |-> "type", n |-> 0, value |-> type_filter]

\* {"match": {f"breadcrumb_{n}": breadcrumb}}
MatchClause(n, breadcrumb) ==
    [kind |-> "match", field |-> "breadcrumb_", n |-> n, value |-> breadcrumb]

\* faulty variant: n is not incremented in the loop
RECURSIVE BreadcrumbClausesSameN(_, _)
BreadcrumbClausesSameN(breadcrumb_filter, n) ==
    IF breadcrumb_filter = <<>> THEN <<>>
    ELSE <<MatchClause(n, breadcrumb_filter[1])>>
         \o BreadcrumbClausesSameN(Tail(breadcrumb_filter), n)

\* for breadcrumb in breadcrumb_filter: append the match clause; n += 1
RECURSIVE BreadcrumbClauses(_, _)
BreadcrumbClauses(breadcrumb_filter, n) ==
    IF breadcrumb_filter = <<>> THEN <<>>
    ELSE <<MatchClause(n, breadcrumb_filter[1])>>
         \o BreadcrumbClauses(Tail(breadcrumb_filter), n + 1)

must_clauses(term, type_filter, breadcrumb_filter) ==
    <<base_query(term)>>
    \o (IF type_filter # "" THEN <<TypeClause(type_filter)>> ELSE <<>>)
    \o (IF breadcrumb_filter # <<>> THEN BreadcrumbClauses(breadcrumb_filter, 1)
        ELSE <<>>)

\* query: {"bool": {"must": must_clauses}} when a filter was added, else the
\* base query itself (wrapper "none", the one clause being the query)
BuildQuery(term, type_filter, breadcrumb_filter) ==
    LET must == must_clauses(term, type_filter, breadcrumb_filter)
    IN  IF Len(must) > 1
        THEN [wrapper |-> "bool.must", clauses |-> must]
        ELSE [wrapper |-> "none", clauses |-> <<base_query(term)>>]

NoQuery == [wrapper |-> "none", clauses |-> <<>>]

payload(a) ==
    [from |-> a.start_index, size |-> a.size,
     query |-> BuildQuery(a.term, a.type_filter, a.breadcrumb_filter)]

NoPayload == [from |-> 0, size |-> 0, query |-> NoQuery]

\* request_kwargs of session.post: cookies is "" when the kwarg is absent
SearchRequest(url, auth, env, a) ==
    LET auth_config == IF auth THEN GetAuthHeaders(env) ELSE <<>>
    IN  [method |-> "POST", url |-> url,
         cookies |-> IF auth /\ "cookies" \in DOMAIN auth_config
                     THEN auth_config.cookies ELSE "",
         json |-> payload(a)]

\* faulty variant: the Intranet filter is not rejected for unauthenticated callers
RejectsIntranetFilterNever(auth, type_filter) == FALSE

\* "if type_filter == 'Intranet'" in the unauthenticated branch
RejectsIntranetFilter(auth, type_filter) ==
    ~auth /\ type_filter = "Intranet"

(***************************************************************************)
(* Upstream outcomes.  transport: session.get/post or response.text()      *)
(* raised.  A body is described by what the code looks at: marker (the     *)
(* text contains "Sign in to GitHub"), first (its first non-blank          *)
(* character: "{", "[" for the start of any JSON value that is no object,  *)
(* "<", or "x" for a character no JSON value starts with, also the empty   *)
(* body), wellformed (what follows first completes a JSON value), and for  *)
(* a JSON object its shape and hit records.  For a page: is_html           *)
(* (content-type names html), converts (BeautifulSoup and markdownify      *)
(* raise nothing) and markdown (what markdownify returns).                 *)
(***************************************************************************)
Statuses == {200, 401, 404, 500}

\* shapes of a parsed JSON value
\*   "list"          the top-level value is not an object
\*   "no_hits"       {}
\*   "hits_scalar"   {"hits": 7}
\*   "no_hits_hits"  {"hits": {"total": T}}
\*   "no_total"      {"hits": {"hits": [...]}}
\*   "full"          {"hits": {"hits": [...], "total": T}}
ObjectShapes == {"no_hits", "hits_scalar", "no_hits_hits", "no_total", "full"}
MissingKeyShapes == {"no_hits", "no_hits_hits", "no_total"}

\* hit records
\*   "plain"       {"_source": {title, url, type, breadcrumb}}
\*   "described"   plain, with a description and a highlight.body excerpt
\*   "KeyError"    highlight.body is an object: [0] raises KeyError
\*   "IndexError"  highlight.body is []: [0] raises IndexError
HitKinds == {"plain", "described", "KeyError", "IndexError"}

HitLists == UNION {[1..k -> HitKinds] : k \in 0..MaxHits}

NoResponse ==
    [transport |-> FALSE, status |-> 0, marker |-> FALSE, first |-> "x",
     wellformed |-> FALSE, shape |-> "list", hits |-> <<>>, total |-> 0,
     is_html |-> FALSE, converts |-> FALSE, markdown |-> <<>>]

SearchResponses ==
    {[NoResponse EXCEPT !.transport = TRUE]}
    \cup
    \* every status, with and without the marker, every first character
    {[NoResponse EXCEPT !.status = st, !.marker = m, !.first = f,
                        !.wellformed = w,
                        !.shape = IF f = "{" THEN "full" ELSE "list"] :
        st \in Statuses, m \in BOOLEAN, f \in {"{", "[", "<", "x"},
        w \in BOOLEAN}
    \cup
    \* status 200, well-formed JSON objects of every shape
    {[NoResponse EXCEPT !.status = 200, !.first = "{", !.wellformed = TRUE,
                        !.shape = sh,
                        !.hits = IF sh \in {"no_total", "full"} THEN h ELSE <<>>,
                        !.total = IF sh \in {"no_hits_hits", "full"}
                                  THEN Len(h) ELSE 0] :
        sh \in ObjectShapes, h \in HitLists}

PageResponses ==
    {[NoResponse EXCEPT !.transport = TRUE]}
    \cup
    {[NoResponse EXCEPT !.status = st, !.marker = m, !.first = f,
                        !.is_html = html, !.converts = cv] :
        st \in Statuses, m \in BOOLEAN, f \in {"<", "x"}, html \in BOOLEAN,
        cv \in BOOLEAN}
    \cup
    {[NoResponse EXCEPT !.status = 200, !.is_html = TRUE, !.converts = TRUE,
                        !.markdown = md] : md \in Texts}

(***************************************************************************)
(* search: from the response to the return (lines 283-393).                *)
(***************************************************************************)
\* every exception class the model raises derives from Exception
ExceptionClasses ==
    {"ClientError", "JSONDecodeError", "AttributeError", "KeyError", "IndexError"}

ErrorAccessing(url, exc) ==
    [Text(MsgErrorAccessing) EXCEPT !.url = url, !.error = exc]

\* faulty variant: the outer handler catches the HTTP client's errors only
OuterExceptClientOnly(exc, url) ==
    IF exc = "ClientError" THEN ToolResponse(ErrorAccessing(url, exc))
    ELSE Raises(exc)

\* "except Exception as error" of search and of _read_url_content
OuterExcept(exc, url) ==
    IF exc \in ExceptionClasses THEN ToolResponse(ErrorAccessing(url, exc))
    ELSE Raises(exc)

\* json.loads(response_text): a JSON text starts, after blanks, with the first
\* character of a JSON value, never with "<"
JsonLoads(resp) ==
    IF resp.first \in {"{", "["} /\ resp.wellformed THEN "parsed"
    ELSE "JSONDecodeError"

\* the two returns under "Sign in to GitHub" in response_text or status 401
AuthFailureText(auth) ==
    IF auth THEN Text(MsgAuthExpired) ELSE Text(MsgAuthRequired)

\* the two returns under response_text.strip().startswith('<')
HtmlInsteadOfJsonText(auth) ==
    IF auth THEN Text(MsgAuthExpired) ELSE Text(MsgGotHtml)

\* the exception evaluating one hit of the rendering loop raises, "" for none
HitRaises(hit) ==
    IF hit \in {"KeyError", "IndexError"} THEN hit ELSE ""

\* the lines one hit adds to body
Entry(n, hit) ==
    [n |-> n, hit |-> hit, description |-> hit = "described",
     excerpt |-> hit = "described"]

\* faulty variant: n is not incremented after an entry
RECURSIVE RenderSameN(_, _)
RenderSameN(hits, n) ==
    IF hits = <<>> THEN [raised |-> "", entries |-> <<>>]
    ELSE IF HitRaises(hits[1]) # ""
    THEN [raised |-> HitRaises(hits[1]), entries |-> <<>>]
    ELSE LET rest == RenderSameN(Tail(hits), n)
         IN  IF rest.raised # "" THEN rest
             ELSE [raised |-> "", entries |-> <<Entry(n, hits[1])>> \o rest.entries]

\* for i, hit in enumerate(hits): append the entry numbered n; n += 1
RECURSIVE Render(_, _)
Render(hits, n) ==
    IF hits = <<>> THEN [raised |-> "", entries |-> <<>>]
    ELSE IF HitRaises(hits[1]) # ""
    THEN [raised |-> HitRaises(hits[1]), entries |-> <<>>]
    ELSE LET rest == Render(Tail(hits), n + 1)
         IN  IF rest.raised # "" THEN rest
             ELSE [raised |-> "", entries |-> <<Entry(n, hits[1])>> \o rest.entries]

\* if start_index > 0: body += f", starting at {start_index + 1}"
StartingPhrase(start_index) ==
    IF start_index > 0 THEN <<start_index + 1>> ELSE <<>>

\* the try block "Process JSON response" with its except KeyError, inside the
\* outer try
ProcessResults(a, auth, url, resp) ==
    IF resp.shape \in {"list", "hits_scalar"}
    THEN \* response_json.get / .get("hits").get: no such attribute
         OuterExcept("AttributeError", url)
    ELSE LET hits == IF resp.shape \in {"no_total", "full"} THEN resp.hits ELSE <<>>
             total_hits == IF resp.shape \in {"no_hits_hits", "full"}
                           THEN resp.total ELSE 0
             rendered == Render(hits, a.start_index + 1)
         IN  IF rendered.raised = "KeyError"
             THEN ToolResponse([Text(MsgUnexpectedFormat) EXCEPT !.error = "KeyError"])
             ELSE IF rendered.raised # ""
             THEN OuterExcept(rendered.raised, url)
             ELSE ToolResponse(
                     [Text(MsgSearchResults) EXCEPT
                         !.term = a.term, !.note = ~auth, !.shown = Len(hits),
                         !.total = total_hits,
                         !.starting = StartingPhrase(a.start_index),
                         !.entries = rendered.entries])

\* the value search returns for the upstream outcome resp
SearchResult(a, auth, url, resp) ==
    IF resp.transport THEN OuterExcept("ClientError", url)
    ELSE IF JsonLoads(resp) = "JSONDecodeError"
    THEN ToolResponse([Text(MsgInvalidJson) EXCEPT !.status = resp.status,
                                                    !.raw = "preview"])
    ELSE IF resp.marker \/ resp.status = 401
    THEN ToolResponse(AuthFailureText(auth))
    ELSE IF resp.first = "<"
    THEN ToolResponse(HtmlInsteadOfJsonText(auth))
    ELSE IF resp.status # 200
    THEN ToolResponse([Text(MsgHttpTryAgain) EXCEPT !.status = resp.status])
    ELSE ProcessResults(a, auth, url, resp)

(***************************************************************************)
(* _read_url_content (lines 44-168).                                       *)
(***************************************************************************)
\* faulty variant: the cookies of auth_config are not put into request_kwargs
PageRequestNoCookies(url, env) ==
    [method |-> "GET", url |-> url, cookies |-> "", json |-> NoPayload]

\* request_kwargs of session.get
PageRequest(url, env) ==
    LET auth_config == GetAuthHeaders(env)
    IN  [method |-> "GET", url |-> url,
         cookies |-> IF "cookies" \in DOMAIN auth_config
                     THEN auth_config.cookies ELSE "",
         json |-> NoPayload]

ContentFrom(url) == [Text(MsgContentFrom) EXCEPT !.url = url]

\* the try block "Convert HTML to markdown" with its except Exception
Normalize(url, resp) ==
    IF resp.is_html
    THEN IF resp.converts
         THEN ToolResponse([ContentFrom(url) EXCEPT
                               !.content = CleanWhitespace(resp.markdown)])
         ELSE \* "Fallback to raw HTML if markdown conversion fails"
              ToolResponse([ContentFrom(url) EXCEPT !.raw = "full"])
    ELSE ToolResponse([ContentFrom(url) EXCEPT !.raw = "full"])

\* the value _read_url_content returns for the upstream outcome resp
PageResult(url, resp) ==
    IF resp.transport THEN OuterExcept("ClientError", url)
    ELSE IF resp.marker \/ resp.status = 401
    THEN ToolResponse(Text(MsgAuthFailedOrExpired))
    ELSE IF resp.status = 404
    THEN ToolResponse([Text(MsgPageNotFound) EXCEPT !.url = url])
    ELSE IF resp.status # 200
    THEN ToolResponse([Text(MsgHttpCheckUrl) EXCEPT !.status = resp.status])
    ELSE Normalize(url, resp)

(***************************************************************************)
(* Inputs.                                                                 *)
(***************************************************************************)
Terms == {"t1", "t2"}
TypeFilters == {"", "Intranet", "Blog"}
Segments == {"support-and-ops", "runbooks"}
BreadcrumbFilters == UNION {[1..k -> Segments] : k \in 0..MaxCrumbs}
StartIndexes == 0..MaxStart
Urls ==
    {[origin |-> o, path |-> "docs/page/"] :
        o \in {IntranetOrigin, HandbookOrigin, "http://intranet.giantswarm.io/",
               "https://example.com/"}}

NoArgs ==
    [op |-> "", term |-> "", start_index |-> 0, size |-> 0, type_filter |-> "",
     breadcrumb_filter |-> <<>>, url |-> NoUrl]

SearchArgs(op, term, start_index, type_filter, breadcrumb_filter) ==
    [NoArgs EXCEPT !.op = op, !.term = term, !.start_index = start_index,
                   !.size = DefaultSize, !.type_filter = type_filter,
                   !.breadcrumb_filter = breadcrumb_filter]

(***************************************************************************)
(* The state machine.                                                      *)
(***************************************************************************)
Init ==
    /\ cookie \in Cookies
    /\ pc = "idle"
    /\ args = NoArgs
    /\ is_authenticated = FALSE
    /\ requests = <<>>
    /\ response = NoResponse
    /\ json_attempted = FALSE
    /\ result = NoResult

\* the invocation returns value without having issued a request
ReturnEarly(a, value) ==
    /\ args' = a
    /\ pc' = "done"
    /\ result' = value
    /\ requests' = <<>>
    /\ UNCHANGED <<cookie, response, json_attempted>>

\* the invocation issues request and suspends on it
Issue(a, request) ==
    /\ args' = a
    /\ pc' = "awaiting"
    /\ requests' = <<request>>
    /\ result' = NoResult
    /\ UNCHANGED <<cookie, response, json_attempted>>

\* search, lines 186-283: up to the return of the Intranet-filter check or to
\* session.post
SearchBegin(a) ==
    LET auth == IsAuthenticated(cookie)
        url == IF auth THEN IntranetSearchUrl ELSE PublicSearchUrl
    IN  /\ is_authenticated' = auth
        /\ IF RejectsIntranetFilter(auth, a.type_filter)
           THEN ReturnEarly(a, ToolResponse(Text(MsgIntranetFilter)))
           ELSE Issue(a, SearchRequest(url, auth, cookie, a))

Search(term, start_index, type_filter, breadcrumb_filter) ==
    /\ pc = "idle"
    /\ SearchBegin(SearchArgs("search", term, start_index, type_filter,
                              breadcrumb_filter))

\* faulty variant: search_runbook without its up-front authentication check
SearchRunbookNoCheck(term, start_index) ==
    /\ pc = "idle"
    /\ SearchBegin(SearchArgs("search_runbook", term, start_index, "",
                              <<"support-and-ops", "runbooks">>))

\* search_runbook: is_authenticated() is read at line 407 and read again by
\* the nested search (lines 187 and 265); the nested call runs to session.post
\* without a suspension, so the three reads are in this one step
SearchRunbook(term, start_index) ==
    /\ pc = "idle"
    /\ IF ~IsAuthenticated(cookie)
       THEN /\ ReturnEarly(SearchArgs("search_runbook", term, start_index, "", <<>>),
                           ToolResponse(Text(MsgRunbookAuth)))
            /\ UNCHANGED is_authenticated
       ELSE SearchBegin(SearchArgs("search_runbook", term, start_index, "",
                                   <<"support-and-ops", "runbooks">>))

SearchOpsRecipe(term, start_index) ==
    /\ pc = "idle"
    /\ IF ~IsAuthenticated(cookie)
       THEN /\ ReturnEarly(SearchArgs("search_ops_recipe", term, start_index, "", <<>>),
                           ToolResponse(Text(MsgOpsRecipeAuth)))
            /\ UNCHANGED is_authenticated
       ELSE SearchBegin(SearchArgs("search_ops_recipe", term, start_index, "",
                                   <<"support-and-ops", "ops-recipes">>))

\* faulty variant: the URL is fetched without the prefix check
IntranetUrlOkAny(url) == TRUE

\* url.startswith("https://intranet.giantswarm.io/")
IntranetUrlOk(url) == StartsWith(url, IntranetOrigin)

\* url.startswith("https://handbook.giantswarm.io/")
HandbookUrlOk(url) == StartsWith(url, HandbookOrigin)

ReadIntranetUrl(url) ==
    LET a == [NoArgs EXCEPT !.op = "read_intranet_url", !.url = url]
    IN  /\ pc = "idle"
        /\ UNCHANGED is_authenticated
        /\ IF ~IsAuthenticated(cookie)
           THEN ReturnEarly(a, ToolResponse(Text(MsgIntranetAuth)))
           ELSE IF ~IntranetUrlOk(url)
           THEN ReturnEarly(a, ToolResponse(Text(MsgIntranetUrl)))
           ELSE Issue(a, PageRequest(url, cookie))

ReadHandbookUrl(url) ==
    LET a == [NoArgs EXCEPT !.op = "read_handbook_url", !.url = url]
    IN  /\ pc = "idle"
        /\ UNCHANGED is_authenticated
        /\ IF ~HandbookUrlOk(url)
           THEN ReturnEarly(a, ToolResponse(Text(MsgHandbookUrl)))
           ELSE Issue(a, PageRequest(url, cookie))

\* search, lines 283-393: the outcome of session.post arrives
SearchResponse(resp) ==
    /\ pc = "awaiting"
    /\ requests[1].method = "POST"
    /\ response' = resp
    /\ json_attempted' = ~resp.transport
    /\ result' = SearchResult(args, is_authenticated, requests[1].url, resp)
    /\ pc' = "done"
    /\ UNCHANGED <<cookie, args, is_authenticated, requests>>

\* _read_url_content, lines 74-168: the outcome of session.get arrives
PageResponse(resp) ==
    /\ pc = "awaiting"
    /\ requests[1].method = "GET"
    /\ response' = resp
    /\ result' = PageResult(args.url, resp)
    /\ pc' = "done"
    /\ UNCHANGED <<cookie, args, is_authenticated, requests, json_attempted>>

\* the caller has the returned value; the next invocation starts afresh
Return ==
    /\ pc = "done"
    /\ pc' = "idle"
    /\ args' = NoArgs
    /\ is_authenticated' = FALSE
    /\ requests' = <<>>
    /\ response' = NoResponse
    /\ json_attempted' = FALSE
    /\ result' = NoResult
    /\ UNCHANGED cookie

\* the environment variable is set, changed or removed between invocations
\* (an invocation reads it only before its first suspension)
SetEnv(c) ==
    /\ pc = "idle"
    /\ c # cookie
    /\ cookie' = c
    /\ UNCHANGED <<pc, args, is_authenticated, requests, response, json_attempted,
                   result>>

Next ==
    \/ \E term \in Terms, start_index \in StartIndexes, type_filter \in TypeFilters,
          breadcrumb_filter \in BreadcrumbFilters :
            Search(term, start_index, type_filter, breadcrumb_filter)
    \/ \E term \in Terms, start_index \in StartIndexes : SearchRunbook(term, start_index)
    \/ \E term \in Terms, start_index \in StartIndexes : SearchOpsRecipe(term, start_index)
    \/ \E url \in Urls : ReadIntranetUrl(url)
    \/ \E url \in Urls : ReadHandbookUrl(url)
    \/ \E resp \in SearchResponses : SearchResponse(resp)
    \/ \E resp \in PageResponses : PageResponse(resp)
    \/ Return
    \/ \E c \in Cookies : SetEnv(c)

Spec == Init /\ [][Next]_vars

(***************************************************************************)
(* Properties.                                                             *)
(***************************************************************************)
Done == pc = "done"

IsSearchOp == args.op \in {"search", "search_runbook", "search_ops_recipe"}
IsReadOp == args.op \in {"read_intranet_url", "read_handbook_url"}

\* r is exactly {content: [{type: "text", text: <text>}]}
IsToolResponse(r) ==
    /\ r.raised = ""
    /\ Len(r.content) = 1
    /\ DOMAIN r.content[1] = {"type", "text"}
    /\ r.content[1].type = "text"
    /\ r.content[1].text.msg # ""

\* the text of the returned value
ResultText == result.content[1].text

\* the invocation received an HTTP response (no transport exception)
GotResponse == Done /\ requests # <<>> /\ ~response.transport

\* C1: whenever an invocation of any of the five operations has ended, whatever
\* the upstream outcome was, what it returned is the ToolResponse envelope with
\* one text item, and no exception propagated to the caller.
C1_AlwaysToolResponse ==
    Done => IsToolResponse(result)

\* C1 witness: a search ended on a 200 response whose parsed body has a "hits"
\* that is no object (AttributeError in the processing block), and one ended
\* on a hit record whose rendering raises IndexError
C1_Witness ==
    /\ GotResponse
    /\ args.op = "search"
    /\ response.status = 200
    /\ JsonLoads(response) = "parsed"
    /\ ~response.marker
    /\ \/ response.shape = "hits_scalar"
       \/ /\ response.shape = "full"
          /\ Len(response.hits) = 2
          /\ response.hits[2] = "IndexError"
    /\ ResultText.msg = MsgErrorAccessing

\* C2: a search with type_filter "Intranet" called while no cookie is set is
\* never waiting on a request: it has returned the Intranet-filter message and
\* issued no request, whatever term, start index and breadcrumb filter are.
C2_IntranetFilterNoRequest ==
    (pc # "idle" /\ args.op = "search" /\ args.type_filter = "Intranet"
        /\ cookie = "")
    => /\ Done
       /\ requests = <<>>
       /\ result = ToolResponse(Text(MsgIntranetFilter))

\* C2 witness: such a search, with a breadcrumb filter and a start index, ended
C2_Witness ==
    /\ Done
    /\ args.op = "search"
    /\ args.type_filter = "Intranet"
    /\ cookie = ""
    /\ args.breadcrumb_filter # <<>>
    /\ args.start_index > 0
    /\ requests = <<>>

\* the messages that report an authentication failure
AuthFailureMsgs == {MsgAuthExpired, MsgAuthRequired, MsgAuthFailedOrExpired}

\* C3: an operation that received an HTML page (first character "<")
\* containing the sign-in marker phrase returns an authentication error, has
\* not attempted to parse the body as JSON, and embeds none of the body in its
\* text.
C3_SignInPageIsAuthError ==
    (GotResponse /\ response.marker /\ response.first = "<")
    => /\ IsToolResponse(result)
       /\ ResultText.msg \in AuthFailureMsgs
       /\ ~json_attempted
       /\ ResultText.raw = "none"

\* C4: a page read has a request outstanding or answered only if its
\* preconditions held (read_intranet_url: a cookie is set and the URL starts
\* with the intranet prefix; read_handbook_url: the URL starts with the
\* handbook prefix); otherwise it has ended with no request issued:
\* read_intranet_url without a cookie with the authentication-required
\* message, a wrong prefix with the URL validation message.
C4_PageReadPreconditions ==
    /\ (pc # "idle" /\ args.op = "read_intranet_url" /\ cookie = "")
        => (Done /\ requests = <<>>
             /\ result = ToolResponse(Text(MsgIntranetAuth)))
    /\ (pc # "idle" /\ args.op = "read_intranet_url" /\ cookie # ""
          /\ args.url.origin # IntranetOrigin)
        => (Done /\ requests = <<>>
             /\ result = ToolResponse(Text(MsgIntranetUrl)))
    /\ (pc # "idle" /\ args.op = "read_handbook_url"
          /\ args.url.origin # HandbookOrigin)
        => (Done /\ requests = <<>>
             /\ result = ToolResponse(Text(MsgHandbookUrl)))
    /\ (IsReadOp /\ requests # <<>>)
        => /\ Len(requests) = 1
           /\ requests[1].method = "GET"
           /\ requests[1].url = args.url

\* C4 witness: read_intranet_url with a cookie and a URL of another origin
\* (here the intranet host over http) ended without a request
C4_Witness ==
    /\ Done
    /\ args.op = "read_intranet_url"
    /\ cookie # ""
    /\ args.url.origin = "http://intranet.giantswarm.io/"
    /\ requests = <<>>

\* C5: the query of every request search posts keeps the base query on the
\* term: with no type filter and no breadcrumb filter it is the base query
\* unwrapped; otherwise it is bool.must of exactly the base query, then the
\* term clause on type if the type filter is non-empty, then one match clause
\* per breadcrumb segment on breadcrumb_1..breadcrumb_N with the segments as
\* values in input order.
C5_QueryClauses ==
    (IsSearchOp /\ requests # <<>>)
    => LET q == requests[1].json.query
           tf == args.type_filter
           bf == args.breadcrumb_filter
           t == IF tf = "" THEN 0 ELSE 1
       IN  /\ Len(q.clauses) = 1 + t + Len(bf)
           /\ q.clauses[1].kind = "function_score"
           /\ q.clauses[1].value = args.term
           /\ q.wrapper = (IF t + Len(bf) = 0 THEN "none" ELSE "bool.must")
           /\ t = 1 => q.clauses[2] = [kind |-> "term", field |-> "type", n |-> 0,
                                      value |-> tf]
           /\ \A i \in 1..Len(bf) :
                q.clauses[1 + t + i] = [kind |-> "match", field |-> "breadcrumb_",
                                        n |-> i, value |-> bf[i]]

\* C5 witness: a request was posted for a search with a type filter and two
\* distinct breadcrumb segments
C5_Witness ==
    /\ pc = "awaiting"
    /\ args.op = "search"
    /\ args.type_filter # ""
    /\ Len(args.breadcrumb_filter) >= 2
    /\ args.breadcrumb_filter[1] # args.breadcrumb_filter[2]

\* the search ended with the report of results
IsReport == Done /\ IsSearchOp /\ IsToolResponse(result)
            /\ ResultText.msg = MsgSearchResults

\* C6: in every report of results, for start index s and k hits, there are k
\* entries, entry i is numbered s+i and renders hit i, and the summary line
\* names the starting offset s+1 exactly when s > 0.
C6_EntryNumbering ==
    IsReport
    => LET s == args.start_index
           e == ResultText.entries
       IN  /\ Len(e) = Len(response.hits)
           /\ ResultText.shown = Len(response.hits)
           /\ \A i \in 1..Len(e) : e[i].n = s + i /\ e[i].hit = response.hits[i]
           /\ s > 0 => ResultText.starting = <<s + 1>>
           /\ s = 0 => ResultText.starting = <<>>

\* C6 witness: a report for a start index above 0 with two different hits
C6_Witness ==
    /\ IsReport
    /\ args.start_index > 0
    /\ Len(ResultText.entries) = 2
    /\ response.hits[1] # response.hits[2]

\* C7: whenever an operation that received a response reports an
\* authentication failure, the wording is the "expired" one if the request
\* carried a credential and the "required" one if it carried none.
C7_AuthWordingByCredential ==
    (GotResponse /\ IsToolResponse(result) /\ ResultText.msg \in AuthFailureMsgs)
    => IF requests[1].cookies # ""
       THEN ResultText.msg \in {MsgAuthExpired, MsgAuthFailedOrExpired}
       ELSE ResultText.msg = MsgAuthRequired

\* the lines of a text; the empty text has none
Lines(t) == IF t = <<>> THEN <<>> ELSE Split(t)

\* a line is blank when it holds whitespace only
Blank(line) == \A i \in 1..Len(line) : line[i] \in Whitespace

NonBlank(lines) == SelectSeq(lines, LAMBDA l : ~Blank(l))

\* the runs of blank lines of lines that have a non-blank line on both sides
InnerBlankRuns(lines) ==
    {i \in 1..Len(lines) :
        /\ Blank(lines[i])
        /\ i < Len(lines) /\ ~Blank(lines[i + 1])
        /\ \E j \in 1..(i - 1) : ~Blank(lines[j])}

\* the page read returned the normalized text of a converted HTML body
IsNormalized ==
    /\ GotResponse
    /\ IsReadOp
    /\ response.status = 200
    /\ ~response.marker
    /\ response.is_html
    /\ response.converts

\* C8: in the normalized text of a converted HTML body no two consecutive
\* lines are blank, the first and the last line are not blank (an empty text
\* has no line), its non-blank lines are the non-blank lines of the converted
\* markdown in the same order (each without its trailing whitespace, the first
\* also without its leading whitespace), it has one blank line for every run
\* of blank lines that stood between two non-blank lines, and cleaning it
\* again returns it unchanged.
C8_BlankLinesCollapsed ==
    IsNormalized
    => LET out == ResultText.content
           L == Lines(out)
           src == NonBlank(Split(response.markdown))
       IN  /\ ResultText.msg = MsgContentFrom
           /\ ResultText.raw = "none"
           /\ \A i \in 1..(Len(L) - 1) : ~(Blank(L[i]) /\ Blank(L[i + 1]))
           /\ L # <<>> => ~Blank(L[1]) /\ ~Blank(L[Len(L)])
           /\ NonBlank(L) = [i \in 1..Len(src) |->
                                IF i = 1 THEN Strip(src[i]) ELSE RStrip(src[i])]
           /\ Cardinality({i \in 1..Len(L) : Blank(L[i])})
                = Cardinality(InnerBlankRuns(Split(response.markdown)))
           /\ CleanWhitespace(out) = out

\* C8 witness: a markdown with three consecutive line ends (two blank lines)
\* between two lines was normalized to the two lines with one blank line
C8_Witness ==
    /\ IsNormalized
    /\ response.markdown = <<"a", NL, NL, NL, "b">>
    /\ ResultText.content = <<"a", NL, NL, "b">>

\* the rule of the claimed order that a response falls under
ClaimedRule(resp) ==
    IF resp.transport THEN "a"
    ELSE IF JsonLoads(resp) # "parsed" THEN "b"
    ELSE IF resp.marker \/ resp.status = 401 THEN "c"
    ELSE IF resp.first = "<" THEN "d"
    ELSE IF resp.status # 200 THEN "e"
    ELSE "f"

\* C9: search answers the response by the first matching rule of (a)..(f):
\* (a) the generic error with endpoint and exception, (b) the invalid-JSON
\* error with the status and a body preview, (c) and (d) the
\* authentication-failure message (expired or required wording), (e) the
\* generic HTTP error with the status, (f) the processing of the results; and
\* each of the rules (b)..(f) is the rule of some response.
C9_ClassificationOrder ==
    /\ (Done /\ IsSearchOp /\ requests # <<>>)
        => LET rule == ClaimedRule(response)
           IN  /\ IsToolResponse(result)
               /\ rule = "a" => ResultText.msg = MsgErrorAccessing
               /\ rule = "b" => (ResultText.msg = MsgInvalidJson
                                  /\ ResultText.status = response.status
                                  /\ ResultText.raw = "preview")
               /\ rule \in {"c", "d"} =>
                     ResultText.msg = (IF is_authenticated THEN MsgAuthExpired
                                       ELSE MsgAuthRequired)
               /\ rule = "e" => (ResultText.msg = MsgHttpTryAgain
                                  /\ ResultText.status = response.status)
               /\ rule = "f" => ResultText.msg \in
                     {MsgSearchResults, MsgUnexpectedFormat, MsgErrorAccessing}
    /\ \A rule \in {"b", "c", "d", "e", "f"} :
          \E resp \in SearchResponses : ClaimedRule(resp) = rule

\* C10: a search that received a 200 response whose body parsed as JSON but
\* is no object or lacks hits, hits.hits or hits.total returns the
\* "Unexpected response format" message.
C10_MissingKeysUnexpectedFormat ==
    (GotResponse /\ IsSearchOp /\ response.status = 200 /\ ~response.marker
        /\ JsonLoads(response) = "parsed"
        /\ (response.first = "[" \/ response.shape \in MissingKeyShapes))
    => /\ IsToolResponse(result)
       /\ ResultText.msg = MsgUnexpectedFormat

\* the fixed breadcrumb filter of a search specialization
FixedBreadcrumbs(op) ==
    IF op = "search_runbook" THEN <<"support-and-ops", "runbooks">>
    ELSE <<"support-and-ops", "ops-recipes">>

IsSpecialization == args.op \in {"search_runbook", "search_ops_recipe"}

C12_HandbookRequestWithoutCredential ==
    (args.op = "read_handbook_url" /\ requests # <<>>)
    => requests[1] = [method |-> "GET", url |-> args.url, cookies |-> "",
                      json |-> NoPayload]

\* C12 as amended: read_handbook_url needs no authentication (a URL with the
\* handbook prefix is fetched whether or not a cookie is set, and the only
\* early return is the URL validation message), but the credential is
\* consulted for every read: its one GET goes to the given URL and carries the
\* session cookie exactly when one is set.
C12_HandbookRequestCarriesCookieIfSet ==
    (pc # "idle" /\ args.op = "read_handbook_url")
    => IF args.url.origin = HandbookOrigin
       THEN /\ Len(requests) = 1
            /\ requests[1] = [method |-> "GET", url |-> args.url,
                              cookies |-> cookie, json |-> NoPayload]
       ELSE /\ Done
            /\ requests = <<>>
            /\ result = ToolResponse(Text(MsgHandbookUrl))

\* C12 witness: a read_handbook_url called with a cookie set returned the page
\* content, its GET having carried the cookie
C12_Witness ==
    /\ GotResponse
    /\ args.op = "read_handbook_url"
    /\ cookie = "c1"
    /\ requests[1].cookies = "c1"
    /\ requests[1].url.origin = HandbookOrigin
    /\ ResultText.msg = MsgContentFrom

====
